---- MODULE Spec2Model ----
(***************************************************************************)
(* Model of behave_toolkit/behave_command.py: one invocation of            *)
(* BehaveCommand.behave() on the caller's thread, the subprocess it        *)
(* spawns, and the StreamerThread that forwards the subprocess's standard  *)
(* output to the output panel.                                             *)
(*                                                                         *)
(* Text is a sequence of tokens.  The tokens are the literal marker        *)
(* "ConfigError", an ordinary piece of text "x" and the line ending "\n";  *)
(* a line is a maximal run of tokens ending in "\n" (or cut by             *)
(* end-of-stream).  A path is the sequence of its components.              *)
(***************************************************************************)
EXTENDS Naturals, Sequences, FiniteSets, TLC

VARIABLES
    pc,            \* position of the caller's thread inside behave()
    print_stream,  \* the print_stream keyword as the caller passed it
    viewSetting,   \* view.settings() entry 'behave_command' read by the call
    globalSetting, \* BehaveToolkit.sublime-settings entry 'behave_command'
    whichResult,   \* what which('behave') answered, when it was asked
    resolved,      \* the value of the behave_command property
    command,       \* the command tuple handed to _launch_process
    folders,       \* window.folders() as read by _get_project_folder
    fileName,      \* view.file_name() as read by _get_project_folder
    dialogAnswer,  \* the user's answer to the first ok_cancel_dialog
    cwd,           \* the working directory handed to Popen
    hostLog,       \* host UI calls made by the call, in order
    panelAtCall,   \* text the output panel displayed when behave() was called
    panelText,     \* text the output panel displays
    panelCalls,    \* erase()/append() calls the call made on the panel
    proc,          \* subprocess: "none", "running", "exited"
    pipe,          \* text written to the stdout pipe and not yet read
    written,       \* everything the subprocess wrote to standard output
    streamer,      \* StreamerThread: "unstarted", "running", "terminated"
    stdout,        \* text collected so far by process.communicate()
    result,        \* the value behave() returned
    error          \* the exception behave() raised: type, message, text

vars == <<pc, print_stream, viewSetting, globalSetting, whichResult, resolved,
          command, folders, fileName, dialogAnswer, cwd, hostLog, panelAtCall,
          panelText, panelCalls, proc, pipe, written, streamer, stdout, result,
          error>>

----------------------------------------------------------------------------
(* Bounds *)

\* most tokens a subprocess writes to standard output
MaxOut == 3

----------------------------------------------------------------------------
(* Values *)

NL == "\n"
Token == {"ConfigError", "x", NL}

\* A settings entry: the key is set to a list, or it is not set at all.
Unset == [set |-> FALSE, val |-> <<>>]
SetTo(v) == [set |-> TRUE, val |-> v]

\* Python values of the settings lookup: None, or a list of strings.
PyNone == [kind |-> "None", items |-> <<>>]
PyList(s) == [kind |-> "list", items |-> s]

\* Python truth of None / a list (line 46: `if behave:`)
Truthy(v) == v.kind = "list" /\ v.items # <<>>

FileCommand == <<"/usr/bin/behave", "--no-color">>
GlobalCommand == <<"behave">>
ViewSettings == {Unset, SetTo(<<>>), SetTo(FileCommand)}
GlobalSettings == {Unset, SetTo(<<>>), SetTo(GlobalCommand)}

\* shutil.which: the path found, or None
WhichNone == "None"
WhichResults == {WhichNone, "/usr/local/bin/behave"}

\* extra positional arguments of behave(); empty ones are dropped
ArgLists == {<<>>, <<"", "--dry-run">>}

\* the print_stream keyword: not passed, None, False or True
PrintStreamKw == {"absent", "None", "False", "True"}

\* window.folders(): the project's folders in the order the host reports
FolderA == <<"a">>
FolderB == <<"work", "b">>
FolderLists == {<<>>, <<FolderA>>, <<FolderA, FolderB>>, <<FolderB, FolderA>>}

\* view.file_name(): the saved path, or None for a view never saved
NoFile == [saved |-> FALSE, path |-> <<>>]
Saved(p) == [saved |-> TRUE, path |-> p]
FileNames == {NoFile, Saved(<<"home", "proj", "f.feature">>)}

\* an exception: its type, its message and the text it carries
NoError == [type |-> "none", msg |-> "", detail |-> <<>>]

NotFoundMsg == "behave could not be found. Is it installed?"
LaunchErrorMsg == "An error occurred while launching behave.\n"

----------------------------------------------------------------------------
(* Host collaborators *)

\* settings.get(key, default): the entry when the key is set, else default
SettingsGet(entry, default) == IF entry.set THEN PyList(entry.val) ELSE default

\* kwargs.get('print_stream'): None when the keyword was not passed
KwargsGet(kw) == IF kw = "absent" THEN "None" ELSE kw

\* variant: anything but False counts as enabled (`is not False`)
PrintStreamOn_NotFalse(v) == v # "False"

\* Python truth of the print_stream value (line 129: `if print_stream:`)
PrintStreamOn(v) == v = "True"

\* os.path.split: (directory, last component)
OpSplit(p) == [head |-> SubSeq(p, 1, Len(p) - 1), tail |-> p[Len(p)]]

\* OutputPanelMixin.erase(): the panel shows nothing
PanelErase(text) == <<>>

\* OutputPanelMixin.append(text, end): the text and then the line ending
PanelAppend(text, s, end) == text \o s \o end

EraseCall == [op |-> "erase", text |-> <<>>, end |-> <<>>]
AppendCall(s, end) == [op |-> "append", text |-> s, end |-> end]

----------------------------------------------------------------------------
(* Pure parts of BehaveCommand *)

\* tuple(arg for arg in args if arg)
FilterArgs(args) == SelectSeq(args, LAMBDA a : a # "")

\* variant: the result of which() is returned without the not-found test
BehaveCommand_NoRaise(view, global, which) ==
    LET behave == SettingsGet(view, SettingsGet(global, PyNone))
    IN  IF Truthy(behave)
        THEN [raised |-> FALSE, value |-> behave.items, log |-> <<>>]
        ELSE [raised |-> FALSE, value |-> <<which>>, log |-> <<>>]

\* the behave_command property: the command, or the failure it raises
BehaveCommand(view, global, which) ==
    LET behave == SettingsGet(view, SettingsGet(global, PyNone))
    IN  IF Truthy(behave)
        THEN [raised |-> FALSE, value |-> behave.items, log |-> <<>>]
        ELSE IF which = WhichNone
             THEN [raised |-> TRUE, value |-> <<>>, log |-> <<"status_message">>]
             ELSE [raised |-> FALSE, value |-> <<which>>, log |-> <<>>]

\* view.file_name() raises nothing: for a view never saved it returns None
FileNameRaises(fn) == FALSE

\* variant: the first folder of the project is chosen (proj_folders[0])
GetProjectFolder_First(fs, fn, answer) ==
    IF Len(fs) > 0
    THEN [raised |-> "none", ret |-> fs[1], log |-> <<>>]
    ELSE LET asked == <<"ok_cancel_dialog:no_folder">>
                      \o (IF answer THEN <<"wb_open">> ELSE <<>>)
         IN  IF ~fn.saved
             THEN [raised |-> "TypeError", ret |-> <<>>, log |-> asked]
             ELSE [raised |-> "none", ret |-> OpSplit(fn.path).head,
                   log |-> asked]

\* _get_project_folder: the folder returned or the exception raised, and the
\* host calls made on the way
GetProjectFolder(fs, fn, answer) ==
    IF Len(fs) > 0
    THEN [raised |-> "none", ret |-> fs[Len(fs)], log |-> <<>>]
    ELSE LET asked == <<"ok_cancel_dialog:no_folder">>
                      \o (IF answer THEN <<"wb_open">> ELSE <<>>)
         IN  IF FileNameRaises(fn)
             THEN \* except AttributeError: prompt; file_path is unbound in finally
                  [raised |-> "UnboundLocalError", ret |-> <<>>,
                   log |-> asked \o <<"ok_cancel_dialog:save",
                                      "run_command:prompt_save_as">>]
             ELSE IF ~fn.saved
                  THEN \* finally: op_split(None)
                       [raised |-> "TypeError", ret |-> <<>>, log |-> asked]
                  ELSE [raised |-> "none", ret |-> OpSplit(fn.path).head,
                        log |-> asked]

\* re.match(pattern, s) for a literal pattern: s begins with the pattern
ReMatch(pattern, s) ==
    Len(s) >= Len(pattern) /\ SubSeq(s, 1, Len(pattern)) = pattern

ConfigErrorPattern == <<"ConfigError">>

\* variant: append is called without end='', so it adds its line ending
StreamerEnd_Default == <<NL>>

\* the line ending StreamerThread.run passes to append: end=''
StreamerEnd == <<>>

\* one iteration of `for line in self.stream`: the text up to and including
\* the first line ending, or all of it when there is none
HasNL(p) == \E i \in 1..Len(p) : p[i] = NL
FirstNL(p) == CHOOSE i \in 1..Len(p) : p[i] = NL /\ \A j \in 1..(i - 1) : p[j] # NL
NextLine(p) == IF HasNL(p) THEN SubSeq(p, 1, FirstNL(p)) ELSE p

----------------------------------------------------------------------------
(* Initial state: no call in progress; the panel shows what an earlier     *)
(* command left in it.                                                     *)

PanelInit == {<<"x", NL>>}

Init ==
    /\ pc = "idle"
    /\ print_stream = "absent"
    /\ viewSetting = Unset
    /\ globalSetting = Unset
    /\ whichResult = WhichNone
    /\ resolved = <<>>
    /\ command = <<>>
    /\ folders = <<>>
    /\ fileName = NoFile
    /\ dialogAnswer = FALSE
    /\ cwd = <<>>
    /\ hostLog = <<>>
    /\ panelText \in PanelInit
    /\ panelAtCall = panelText
    /\ panelCalls = <<>>
    /\ proc = "none"
    /\ pipe = <<>>
    /\ written = <<>>
    /\ streamer = "unstarted"
    /\ stdout = <<>>
    /\ result = <<>>
    /\ error = NoError

----------------------------------------------------------------------------
(* The caller's thread *)

\* behave(*args, **kwargs), lines 27-31: resolve the command, append the
\* non-empty arguments, and enter _launch_process
Behave ==
    /\ pc = "idle"
    /\ \E kw \in PrintStreamKw, args \in ArgLists, v \in ViewSettings,
          g \in GlobalSettings, w \in WhichResults :
         LET r == BehaveCommand(v, g, w)
         IN  /\ print_stream' = kw
             /\ viewSetting' = v
             /\ globalSetting' = g
             /\ whichResult' = w
             /\ hostLog' = hostLog \o r.log
             /\ IF r.raised
                THEN /\ pc' = "raised"
                     /\ error' = [type |-> "Exception", msg |-> NotFoundMsg,
                                  detail |-> <<>>]
                     /\ UNCHANGED <<resolved, command>>
                ELSE /\ pc' = "launch"
                     /\ resolved' = r.value
                     /\ command' = r.value \o FilterArgs(args)
                     /\ UNCHANGED error
    /\ panelAtCall' = panelText
    /\ UNCHANGED <<folders, fileName, dialogAnswer, cwd, panelText, panelCalls,
                   proc, pipe, written, streamer, stdout, result>>

\* _launch_process, lines 116-129: choose the working directory, spawn the
\* subprocess with its standard output piped, and test print_stream.  The
\* startupinfo of lines 116-120 only keeps Windows from opening a console.
Popen ==
    /\ pc = "launch"
    /\ \E fs \in FolderLists, fn \in FileNames, answer \in BOOLEAN :
         LET r == GetProjectFolder(fs, fn, answer)
         IN  /\ folders' = fs
             \* with a folder in the project neither the dialog nor
             \* file_name() is reached: they keep their initial values
             /\ fs # <<>> => (fn = NoFile /\ answer = FALSE)
             /\ fileName' = fn
             /\ dialogAnswer' = answer
             /\ hostLog' = hostLog \o r.log
             /\ IF r.raised # "none"
                THEN /\ pc' = "raised"
                     /\ error' = [type |-> r.raised, msg |-> "", detail |-> <<>>]
                     /\ UNCHANGED <<cwd, proc>>
                ELSE /\ pc' = IF PrintStreamOn(KwargsGet(print_stream))
                              THEN "erase" ELSE "communicate"
                     /\ cwd' = r.ret
                     /\ proc' = "running"
                     /\ UNCHANGED error
    /\ UNCHANGED <<print_stream, viewSetting, globalSetting, whichResult,
                   resolved, command, panelAtCall, panelText, panelCalls, pipe, written, streamer,
                   stdout, result>>

\* line 130: self.erase()
Erase ==
    /\ pc = "erase"
    /\ panelText' = PanelErase(panelText)
    /\ panelCalls' = Append(panelCalls, EraseCall)
    /\ pc' = "start"
    /\ UNCHANGED <<print_stream, viewSetting, globalSetting, whichResult,
                   resolved, command, panelAtCall, folders, fileName, dialogAnswer, cwd, hostLog,
                   proc, pipe, written, streamer, stdout, result, error>>

\* lines 131-132: StreamerThread(self.append, process.stdout).start()
StreamerStart ==
    /\ pc = "start"
    /\ streamer' = "running"
    /\ pc' = "join"
    /\ UNCHANGED <<print_stream, viewSetting, globalSetting, whichResult,
                   resolved, command, panelAtCall, folders, fileName, dialogAnswer, cwd, hostLog,
                   panelText, panelCalls, proc, pipe, written, stdout, result,
                   error>>

\* variant: the caller goes on without waiting for the thread
Join_NoWait ==
    /\ pc = "join"
    /\ pc' = "communicate"
    /\ UNCHANGED <<print_stream, viewSetting, globalSetting, whichResult,
                   resolved, command, panelAtCall, folders, fileName,
                   dialogAnswer, cwd, hostLog, panelText, panelCalls, proc,
                   pipe, written, streamer, stdout, result, error>>

\* line 133: streamer.join() returns once the thread has terminated
Join ==
    /\ pc = "join"
    /\ streamer = "terminated"
    /\ pc' = "communicate"
    /\ UNCHANGED <<print_stream, viewSetting, globalSetting, whichResult,
                   resolved, command, panelAtCall, folders, fileName, dialogAnswer, cwd, hostLog,
                   panelText, panelCalls, proc, pipe, written, streamer,
                   stdout, result, error>>

\* line 135: process.communicate() reads what is in the pipe
CommunicateRead ==
    /\ pc = "communicate"
    /\ pipe # <<>>
    /\ stdout' = stdout \o pipe
    /\ pipe' = <<>>
    /\ UNCHANGED <<pc, print_stream, viewSetting, globalSetting, whichResult,
                   resolved, command, panelAtCall, folders, fileName, dialogAnswer, cwd, hostLog,
                   panelText, panelCalls, proc, written, streamer, result,
                   error>>

\* lines 135-141: communicate() returns at end-of-stream with the process
\* gone; the text read is tested for the marker and returned
CommunicateReturn ==
    /\ pc = "communicate"
    /\ pipe = <<>>
    /\ proc = "exited"
    /\ IF ReMatch(ConfigErrorPattern, stdout)
       THEN /\ pc' = "raised"
            /\ error' = [type |-> "Exception", msg |-> LaunchErrorMsg,
                         detail |-> stdout]
            /\ UNCHANGED result
       ELSE /\ pc' = "returned"
            /\ result' = stdout
            /\ UNCHANGED error
    /\ UNCHANGED <<print_stream, viewSetting, globalSetting, whichResult,
                   resolved, command, panelAtCall, folders, fileName, dialogAnswer, cwd, hostLog,
                   panelText, panelCalls, proc, pipe, written, streamer,
                   stdout>>

----------------------------------------------------------------------------
(* StreamerThread.run *)

\* lines 154-155: a line is read from the stream and appended, end=''
StreamerLine ==
    /\ streamer = "running"
    /\ pipe # <<>>
    /\ HasNL(pipe) \/ proc = "exited"
    /\ LET line == NextLine(pipe)
       IN  /\ pipe' = SubSeq(pipe, Len(line) + 1, Len(pipe))
           /\ panelText' = PanelAppend(panelText, line, StreamerEnd)
           /\ panelCalls' = Append(panelCalls, AppendCall(line, StreamerEnd))
    /\ UNCHANGED <<pc, print_stream, viewSetting, globalSetting, whichResult,
                   resolved, command, panelAtCall, folders, fileName, dialogAnswer, cwd, hostLog,
                   proc, written, streamer, stdout, result, error>>

\* variant: the loop ends as soon as nothing is there to read
StreamerEOF_OnEmpty ==
    /\ streamer = "running"
    /\ pipe = <<>>
    /\ streamer' = "terminated"
    /\ UNCHANGED <<pc, print_stream, viewSetting, globalSetting, whichResult,
                   resolved, command, panelAtCall, folders, fileName,
                   dialogAnswer, cwd, hostLog, panelText, panelCalls, proc,
                   pipe, written, stdout, result, error>>

\* line 154: the stream is exhausted, the loop and the thread end
StreamerEOF ==
    /\ streamer = "running"
    /\ pipe = <<>>
    /\ proc = "exited"
    /\ streamer' = "terminated"
    /\ UNCHANGED <<pc, print_stream, viewSetting, globalSetting, whichResult,
                   resolved, command, panelAtCall, folders, fileName, dialogAnswer, cwd, hostLog,
                   panelText, panelCalls, proc, pipe, written, stdout, result,
                   error>>

----------------------------------------------------------------------------
(* The subprocess *)

\* the subprocess writes a piece of text to standard output
ProcWrite ==
    /\ proc = "running"
    /\ Len(written) < MaxOut
    /\ \E t \in Token :
         /\ pipe' = Append(pipe, t)
         /\ written' = Append(written, t)
    /\ UNCHANGED <<pc, print_stream, viewSetting, globalSetting, whichResult,
                   resolved, command, panelAtCall, folders, fileName, dialogAnswer, cwd, hostLog,
                   panelText, panelCalls, proc, streamer, stdout, result,
                   error>>

\* the subprocess exits, which closes its end of the pipe
ProcExit ==
    /\ proc = "running"
    /\ proc' = "exited"
    /\ UNCHANGED <<pc, print_stream, viewSetting, globalSetting, whichResult,
                   resolved, command, panelAtCall, folders, fileName, dialogAnswer, cwd, hostLog,
                   panelText, panelCalls, pipe, written, streamer, stdout,
                   result, error>>

----------------------------------------------------------------------------

Next ==
    \/ Behave
    \/ Popen
    \/ Erase
    \/ StreamerStart
    \/ Join
    \/ CommunicateRead
    \/ CommunicateReturn
    \/ StreamerLine
    \/ StreamerEOF
    \/ ProcWrite
    \/ ProcExit

Spec == Init /\ [][Next]_vars

\* Scheduling: a thread that can take its next step eventually takes it.
\* Nothing obliges the subprocess to write or to exit.
CallerStep == Erase \/ StreamerStart \/ Join \/ CommunicateRead \/ CommunicateReturn
StreamerStep == StreamerLine \/ StreamerEOF
FairSpec == Spec /\ WF_vars(CallerStep) /\ WF_vars(StreamerStep)

----------------------------------------------------------------------------
(* Vocabulary of the properties *)

\* the caller asked for streaming: print_stream=True was passed
Streaming == print_stream = "True"
\* the subprocess was spawned
Launched == proc # "none"
\* the call is over
Done == pc \in {"returned", "raised"}
\* a settings entry names a command
Configured(e) == e.set /\ e.val # <<>>
\* _get_project_folder has run
FolderChosen == pc \notin {"idle", "launch"} /\ error.msg # NotFoundMsg
\* the text begins with the marker
BeginsWithMarker(s) == s # <<>> /\ s[1] = "ConfigError"

\* the lines of a text, each with its line ending; the last may lack one
RECURSIVE SplitAcc(_, _)
SplitAcc(s, cur) ==
    IF s = <<>>
    THEN IF cur = <<>> THEN <<>> ELSE <<cur>>
    ELSE IF Head(s) = NL
         THEN <<Append(cur, NL)>> \o SplitAcc(Tail(s), <<>>)
         ELSE SplitAcc(Tail(s), Append(cur, Head(s)))
SplitLines(s) == SplitAcc(s, <<>>)

----------------------------------------------------------------------------
(* Properties *)

\* C1: a launch whose subprocess output begins with "ConfigError" never
\* returns: it raises, and the error carries all the subprocess wrote,
\* with print_stream enabled or disabled.
C1_ConfigErrorRaises ==
    (Launched /\ Done /\ BeginsWithMarker(written))
        => (pc = "raised" /\ error.msg = LaunchErrorMsg /\ error.detail = written)

\* C2: the string a launch returns is all the subprocess wrote to standard
\* output, with print_stream enabled or disabled.
C2_ReturnsAllOutput ==
    pc = "returned" => result = written

\* C3: a streaming launch calls the panel with erase() once, before the
\* streamer is started, and then with append(L, end='') for each line L of
\* the subprocess's output, in order and once each.
C3_EraseThenLinesInOrder ==
    (Streaming /\ Launched) =>
        LET L == SplitLines(written)
            n == Len(panelCalls)
        IN  /\ pc = "erase" => n = 0
            /\ pc # "erase" => (n >= 1 /\ panelCalls[1] = EraseCall)
            /\ streamer = "unstarted" => n <= 1
            /\ n <= 1 + Len(L)
            /\ \A i \in 2..n : panelCalls[i] = AppendCall(L[i - 1], <<>>)
            /\ streamer = "terminated" => n = 1 + Len(L)

C3_Witness ==
    /\ Streaming
    /\ pc = "returned"
    /\ Len(SplitLines(written)) = 2
    /\ Len(panelCalls) = 3

\* C4: a launch with print_stream absent, None or False makes no call on the
\* panel, leaves its text as it was and starts no streamer thread, whether
\* it returns or fails.
C4_NoStreamNoPanel ==
    print_stream \in {"absent", "None", "False"} =>
        /\ panelCalls = <<>>
        /\ panelText = panelAtCall
        /\ streamer = "unstarted"

C4_Witness ==
    /\ print_stream = "None"
    /\ Launched
    /\ pc = "raised"
    /\ written # <<>>

\* C5: the resolved command is the file-level command when one is
\* configured, else the global command when one is configured, else the
\* one-element vector of the path found for `behave`.
C5_Resolution ==
    pc = "launch" =>
        /\ Configured(viewSetting) => resolved = viewSetting.val
        /\ (~Configured(viewSetting) /\ Configured(globalSetting))
               => resolved = globalSetting.val
        /\ (~Configured(viewSetting) /\ ~Configured(globalSetting))
               => resolved = <<whichResult>>

\* C6: with no command configured and no `behave` found, behave() shows the
\* status notice and fails with the not-found error; nothing is spawned, no
\* dialog is shown and the panel is untouched.
C6_NotFoundAborts ==
    (/\ pc # "idle"
     /\ ~Configured(viewSetting)
     /\ ~Configured(globalSetting)
     /\ whichResult = WhichNone)
        => /\ pc = "raised"
           /\ error = [type |-> "Exception", msg |-> NotFoundMsg, detail |-> <<>>]
           /\ hostLog = <<"status_message">>
           /\ proc = "none"
           /\ streamer = "unstarted"
           /\ panelCalls = <<>>
           /\ panelText = panelAtCall

C6_Witness ==
    /\ pc = "raised"
    /\ viewSetting = SetTo(<<>>)
    /\ globalSetting = Unset
    /\ error.msg = NotFoundMsg

\* C7: with a folder in the project the working directory is the last
\* folder and no dialog or browser is used; with none and a saved file the
\* dialog is shown once, the documentation is opened only on OK, and the
\* working directory is the directory of the file.
C7_WorkingDirectory ==
    FolderChosen =>
        /\ folders # <<>> =>
              /\ Launched
              /\ cwd = folders[Len(folders)]
              /\ hostLog = <<>>
        /\ (folders = <<>> /\ fileName.saved) =>
              /\ Launched
              /\ Append(cwd, fileName.path[Len(fileName.path)]) = fileName.path
              /\ hostLog = IF dialogAnswer
                           THEN <<"ok_cancel_dialog:no_folder", "wb_open">>
                           ELSE <<"ok_cancel_dialog:no_folder">>

C7_Witness ==
    /\ FolderChosen
    /\ folders = <<>>
    /\ fileName.saved
    /\ dialogAnswer
    /\ cwd = <<"home", "proj">>

\* C8: with no folder in the project and a file never saved, the user is
\* prompted to save (the save dialog and prompt_save_as) before the
\* directory is computed.
C8_UnsavedPromptsSave ==
    (FolderChosen /\ folders = <<>> /\ ~fileName.saved) =>
        \E i, j \in 1..Len(hostLog) :
            /\ i < j
            /\ hostLog[i] = "ok_cancel_dialog:save"
            /\ hostLog[j] = "run_command:prompt_save_as"

\* C9: once the caller reads the final output, the streamer has terminated
\* and no call is made on the panel any more, up to and after the return.
C9_NoAppendAfterJoin ==
    [][/\ (Streaming /\ pc' = "communicate") => streamer' = "terminated"
       /\ pc \in {"communicate", "returned", "raised"}
              => (panelCalls' = panelCalls /\ panelText' = panelText)]_vars

C9_Witness ==
    /\ Streaming
    /\ pc = "communicate"
    /\ Len(panelCalls) >= 2
    /\ stdout = <<>>

\* C10: in a streaming launch, once the subprocess has exited the streamer
\* terminates and the call completes; the streamer terminates and the call
\* completes only when the subprocess has exited.
C10_CompletesIffExits ==
    /\ (Streaming /\ proc = "exited") ~> (streamer = "terminated" /\ Done)
    /\ []((Streaming /\ Launched /\ (streamer = "terminated" \/ Done))
              => proc = "exited")

C10_Witness ==
    /\ Streaming
    /\ proc = "exited"
    /\ streamer = "terminated"
    /\ pc = "returned"
    /\ written # <<>>

====
